---------------------------- MODULE Spec2Model ----------------------------
(***************************************************************************)
(* A model of weathergraphnet: the U-Net of train_cnn.py (crop, forward,   *)
(* train_model, evaluate), the training script's pipeline, and the helpers *)
(* of utils.py (MyDataset, MaskedLoss, get_runs, load_best_model,          *)
(* load_config_and_data, setup_mlflow).                                    *)
(*                                                                         *)
(* Each part of the program has its own specification (SpecUNet,           *)
(* SpecDataset, ...): the parts share no state, so each is explored on its *)
(* own while the variables of the other parts rest at their idle values.   *)
(***************************************************************************)
EXTENDS Integers, Sequences, FiniteSets

VARIABLES
    \* ---- UNet.crop / UNet.forward (train_cnn.py) ----
    unet_op,          \* "call_crop" | "call_forward": the call about to run;
                      \* "crop" | "forward": the call that has run
    encoder_layer,    \* crop's encoder_layer argument (a tensor)
    decoder_layer,    \* crop's decoder_layer argument (a tensor)
    crop_out,         \* what crop returned
    x_in,             \* forward's input x (a tensor)
    channels_out,     \* the channels_out the UNet was built with
    fwd_out           \* what forward returned: [status, shape, cropped]

VARIABLES
    \* ---- MyDataset (train_cnn.py, utils.py) ----
    ds_pc,            \* "new": about to be constructed; "ready": constructed
    data,             \* the data: [members, times], its two sizes
    split,            \* the split argument
    train_indices,    \* self.train_indices
    test_indices,     \* self.test_indices
    ds_ret            \* what the last call returned: [op, ...]

VARIABLES
    \* ---- the training script and the MLflow helpers ----
    pc,               \* where the program is: the script's stage, or "lib" for
                      \* a caller of the utils.py helpers
    retrain,          \* the script's retrain flag
    as_main,          \* whether the script runs as __main__
    hostname,         \* socket.gethostname(), as a sequence of characters
    experiments,      \* the tracking store's experiments, in creation order
    active_experiment,\* the name mlflow.set_experiment made active, or "none"
    runs,             \* the tracking store's runs, in storage order
    bound_names,      \* the script's global names that are bound so far
    trained,          \* train_model has completed
    evaluated,        \* evaluate has completed
    plotted,          \* the animation has been saved
    loaded_model,     \* the path mlflow.pytorch.load_model loaded, or << >>
    call_ret          \* what the last call returned or raised: [op, status, ...]

VARIABLES
    \* ---- load_config_and_data (utils.py) ----
    cfg_pc,           \* "call": about to run; "returned" | "raised": has run
    config,           \* config.json: [coarsen, data_train, data_test]
    zarr,             \* the datasets on disk, by path
    downscale_calls,  \* the calls of downscale_data made: <<name, factor>>
    cfg_ret           \* what load_config_and_data returned

VARIABLES
    \* ---- MaskedLoss.forward (train_cnn.py, utils.py) ----
    loss_pc,          \* "call": about to run; "returned": has run
    cell_loss,        \* what self.loss_fn(outputs, target) returns, per cell
    mask,             \* the mask, per cell
    mean_loss         \* what forward returned

VARIABLES
    \* ---- UNet.train_model (train_cnn.py) ----
    tr_pc,            \* "call" | "batch" | "epoch_end" | "returned" | "raised"
    num_epochs,       \* the num_epochs argument
    num_batches,      \* len(dataloader)
    last_len,         \* the number of samples of the dataloader's last batch
    mask_given,       \* whether mask is not None
    scheduler_given,  \* whether scheduler is not None
    epoch,            \* the loop variable epoch
    batch,            \* the number of batches of this epoch done so far
    running_loss,     \* running_loss
    avg_loss,         \* avg_loss, a float (in units of 1/Scale), or Unbound
    best_loss,        \* best_loss, a float
    weights,          \* the model's weights: the optimizer steps they took
    counts,           \* what has been called how often so far
    batch_trace,      \* the calls of the last batch, in order
    checkpoint,       \* the "models" artifact of the run: the last model logged
    final_losses,     \* avg_loss at the end of each epoch completed so far
    \* ---- UNet.evaluate (train_cnn.py) ----
    ev_pc,            \* where evaluate stands: "call" | "batch" | "divide" |
                      \* "returned" | "raised" ("idle": not in use)
    dataloader,       \* the batches of the dataloader, in its order: for each
                      \* its input_data and the loss loss_fn gives on it
    ev_mask_given,    \* mask is not None
    return_predictions, \* the return_predictions argument
    training,         \* the module's training flag (self.eval() clears it)
    ev_i,             \* the number of batches taken from the dataloader
    ev_loss,          \* the local loss: the sum of the losses so far
    y_preds,          \* the local y_preds: unbound, or the list of outputs
    ev_loss_call,     \* the last call of loss_fn
    ev_ret            \* what evaluate returned or raised

unet_vars == <<unet_op, encoder_layer, decoder_layer, crop_out, x_in,
               channels_out, fwd_out>>
ds_vars == <<ds_pc, data, split, train_indices, test_indices, ds_ret>>

trk_vars == <<pc, retrain, as_main, hostname, experiments, active_experiment,
              runs, bound_names, trained, evaluated, plotted, loaded_model,
              call_ret>>

cfg_vars == <<cfg_pc, config, zarr, downscale_calls, cfg_ret>>
loss_vars == <<loss_pc, cell_loss, mask, mean_loss>>

train_vars == <<tr_pc, num_epochs, num_batches, last_len, mask_given,
                scheduler_given, epoch, batch, running_loss, avg_loss,
                best_loss, weights, counts, batch_trace, checkpoint,
                final_losses>>

eval_vars == <<ev_pc, dataloader, ev_mask_given, return_predictions, training,
               ev_i, ev_loss, y_preds, ev_loss_call, ev_ret>>

vars == <<unet_vars, ds_vars, trk_vars, cfg_vars, loss_vars, train_vars,
          eval_vars>>

\* What the calls of one part leave alone: the other parts.
not_unet == <<ds_vars, trk_vars, cfg_vars, loss_vars, train_vars, eval_vars>>
not_ds == <<unet_vars, trk_vars, cfg_vars, loss_vars, train_vars, eval_vars>>
not_trk == <<unet_vars, ds_vars, cfg_vars, loss_vars, train_vars, eval_vars>>
not_cfg == <<unet_vars, ds_vars, trk_vars, loss_vars, train_vars, eval_vars>>
not_loss == <<unet_vars, ds_vars, trk_vars, cfg_vars, train_vars, eval_vars>>
not_train == <<unet_vars, ds_vars, trk_vars, cfg_vars, loss_vars, eval_vars>>
not_eval == <<unet_vars, ds_vars, trk_vars, cfg_vars, loss_vars, train_vars>>

-----------------------------------------------------------------------------
(* Bounds of the model. *)

\* Largest height/width of a tensor handed to crop.
MaxDim == 4
\* Largest batch size and channel count of a tensor handed to crop / forward.
MaxNC == 2
\* Largest height/width of an input of forward.
MaxHW == 17
\* Largest number of ensemble members and of time steps of a dataset.
MaxMembers == 3
MaxTimes == 2
\* Largest number of runs the tracking store holds at the start.
MaxRuns == 2
\* Largest coarsening factor of a configuration, and largest height/ncells of
\* a dataset on disk.
MaxFactor == 3
MaxCells == 4
\* Largest number of cells of a loss tensor, and largest loss of a cell.
MaxLossCells == 3
MaxCellLoss == 2
\* Largest number of epochs and of batches per epoch of a training, largest
\* batch size of the dataloader, and largest loss of a batch.
MaxEpochs == 2
MaxBatches == 2
MaxBatchSize == 2
MaxBatchLoss == 1

-----------------------------------------------------------------------------
(* Python and torch helpers. *)

\* The labels 1..n in order: the coordinates of a fresh tensor axis.
Iota(n) == [i \in 1..n |-> i]

Min(a, b) == IF a < b THEN a ELSE b
Max(a, b) == IF a > b THEN a ELSE b

\* Python's s[start:stop] for integers start, stop: a negative index counts
\* from the end, both are clamped to 0..len(s), an empty range gives [].
PySliceIndex(i, n) == IF i < 0 THEN Max(i + n, 0) ELSE Min(i, n)

PySlice(s, start, stop) ==
    LET lo == PySliceIndex(start, Len(s))
        hi == PySliceIndex(stop, Len(s))
    IN  IF lo < hi THEN SubSeq(s, lo + 1, hi) ELSE << >>

\* Python's a // 2 and a % 2 (floor division: the remainder is 0 or 1).
FloorDiv2(a) == a \div 2
Mod2(a) == a % 2

\* A 4-d tensor, as far as its shape and the origin of its rows and columns
\* go: n samples, c channels, and the coordinate labels kept on axis 2 (rows)
\* and axis 3 (cols).
Tensor(n, c, rows, cols) == [n |-> n, c |-> c, rows |-> rows, cols |-> cols]

NewTensor(n, c, h, w) == Tensor(n, c, Iota(h), Iota(w))

\* tensor.size() / tensor.shape
size(t) == <<t.n, t.c, Len(t.rows), Len(t.cols)>>

-----------------------------------------------------------------------------
(* UNet.crop *)

\* encoder_layer = encoder_layer[:, :, :, 1:encoder_layer.size()[3]]
DropFirstCol(t) == Tensor(t.n, t.c, t.rows, PySlice(t.cols, 1, size(t)[4]))

\* A mutant of DropFirstRow: the odd row is taken from the trailing edge.
DropFirstRow_Last(t) ==
    Tensor(t.n, t.c, PySlice(t.rows, 0, size(t)[3] - 1), t.cols)

\* encoder_layer = encoder_layer[:, :, 1:encoder_layer.size()[2], :]
DropFirstRow(t) == Tensor(t.n, t.c, PySlice(t.rows, 1, size(t)[3]), t.cols)

\* A mutant of crop: the odd remainder of the size difference is not removed.
crop_NoOddFix(enc, dec) ==
    LET diffY == size(enc)[3] - size(dec)[3]
        diffX == size(enc)[4] - size(dec)[4]
    IN  Tensor(enc.n, enc.c,
               PySlice(enc.rows, FloorDiv2(diffY), size(enc)[3] - FloorDiv2(diffY)),
               PySlice(enc.cols, FloorDiv2(diffX), size(enc)[4] - FloorDiv2(diffX)))

crop(enc, dec) ==
    LET diffY == size(enc)[3] - size(dec)[3]
        diffX == size(enc)[4] - size(dec)[4]
        centre == Tensor(enc.n, enc.c,
                         PySlice(enc.rows, FloorDiv2(diffY),
                                 size(enc)[3] - FloorDiv2(diffY)),
                         PySlice(enc.cols, FloorDiv2(diffX),
                                 size(enc)[4] - FloorDiv2(diffX)))
        afterX == IF Mod2(diffX) = 1 THEN DropFirstCol(centre) ELSE centre
        afterY == IF Mod2(diffY) = 1 THEN DropFirstRow(afterX) ELSE afterX
    IN  afterY

-----------------------------------------------------------------------------
(* UNet.forward: the layers, as far as shapes go. *)

\* nn.Conv2d(c_in, c_out, kernel_size=3, padding=1) and kernel_size=1: the
\* height and width are kept, the channels become c_out.
Conv2d(t, c_out) == NewTensor(t.n, c_out, size(t)[3], size(t)[4])

\* nn.MaxPool2d(kernel_size=2, stride=2): floor(h/2) x floor(w/2).
MaxPool2d(t) == NewTensor(t.n, t.c, size(t)[3] \div 2, size(t)[4] \div 2)

\* nn.ConvTranspose2d(c_in, c_out, kernel_size=2, stride=2): 2h x 2w.
ConvTranspose2d(t, c_out) == NewTensor(t.n, c_out, 2 * size(t)[3], 2 * size(t)[4])

\* torch.cat([a, b], dim=1): the channels add up; every other axis must agree.
CatOk(a, b) == /\ a.n = b.n
               /\ size(a)[3] = size(b)[3]
               /\ size(a)[4] = size(b)[4]

Cat(a, b) == NewTensor(a.n, a.c + b.c, size(a)[3], size(a)[4])

\* F.pad(out, (left, 0, 0, 0), mode='replicate'): `left` more columns.
PadLeft(t, left) == NewTensor(t.n, t.c, size(t)[3], size(t)[4] + left)

\* A skip connection of forward: crop the encoder layer when the shapes
\* differ, and count the crop.
Skip(x, y) == IF size(y) # size(x) THEN [x |-> crop(x, y), cropped |-> 1]
              ELSE [x |-> x, cropped |-> 0]

\* forward(x) of a UNet(channels_in = x's channels, channels_out = c_out).  A pooling
\* whose output would be empty, and a torch.cat of layers that do not fit,
\* raise a RuntimeError.
forward(x, c_out) ==
    LET x1 == Conv2d(x, 64)
        x2 == MaxPool2d(Conv2d(x1, 128))
        x3 == MaxPool2d(Conv2d(x2, 256))
        x4 == MaxPool2d(Conv2d(x3, 512))
        y1u == ConvTranspose2d(x4, 256)
        s3 == Skip(x3, y1u)
        y1 == Conv2d(Cat(s3.x, y1u), 256)
        y2u == ConvTranspose2d(y1, 128)
        s2 == Skip(x2, y2u)
        y2 == Conv2d(Cat(s2.x, y2u), 128)
        y3u == ConvTranspose2d(y2, 64)
        s1 == Skip(x1, y3u)
        y3 == Conv2d(Cat(s1.x, y3u), 64)
        cropped == s3.cropped + s2.cropped + s1.cropped
        out == PadLeft(Conv2d(y3, c_out), cropped)
    IN  IF size(x4)[3] = 0 \/ size(x4)[4] = 0
        THEN [status |-> "RuntimeError", shape |-> << >>, cropped |-> 0]
        ELSE IF ~(CatOk(s3.x, y1u) /\ CatOk(s2.x, y2u) /\ CatOk(s1.x, y3u))
        THEN [status |-> "RuntimeError", shape |-> << >>, cropped |-> cropped]
        ELSE [status |-> "ok", shape |-> size(out), cropped |-> cropped]

-----------------------------------------------------------------------------
(* The U-Net's specification: calls of crop and of forward. *)

NoTensor == Tensor(0, 0, << >>, << >>)
NoResult == [status |-> "none", shape |-> << >>, cropped |-> 0]

\* No call of the U-Net is under way.
IdleUNet ==
    /\ unet_op = "idle"
    /\ encoder_layer = NoTensor
    /\ decoder_layer = NoTensor
    /\ crop_out = NoTensor
    /\ x_in = NoTensor
    /\ channels_out = 0
    /\ fwd_out = NoResult

\* A call of crop on any two layers, or a call of forward on any input, is
\* about to run.
InitUNet ==
    \/ \E n \in 1..MaxNC, c \in 1..MaxNC, eh \in 0..MaxDim, ew \in 0..MaxDim,
          dh \in 0..MaxDim, dw \in 0..MaxDim :
           /\ unet_op = "call_crop"
           /\ encoder_layer = NewTensor(n, c, eh, ew)
           /\ decoder_layer = NewTensor(n, c, dh, dw)
           /\ crop_out = NoTensor
           /\ x_in = NoTensor
           /\ channels_out = 0
           /\ fwd_out = NoResult
    \/ \E n \in 1..MaxNC, c_in \in 1..MaxNC, c_out \in 1..MaxNC,
          h \in 1..MaxHW, w \in 1..MaxHW :
           /\ unet_op = "call_forward"
           /\ x_in = NewTensor(n, c_in, h, w)
           /\ channels_out = c_out
           /\ encoder_layer = NoTensor
           /\ decoder_layer = NoTensor
           /\ crop_out = NoTensor
           /\ fwd_out = NoResult

\* crop(encoder_layer, decoder_layer) runs and returns.
Crop ==
    /\ unet_op = "call_crop"
    /\ unet_op' = "crop"
    /\ crop_out' = crop(encoder_layer, decoder_layer)
    /\ UNCHANGED <<encoder_layer, decoder_layer, x_in, channels_out, fwd_out>>
    /\ UNCHANGED not_unet

\* forward(x) runs and returns or raises.
Forward ==
    /\ unet_op = "call_forward"
    /\ unet_op' = "forward"
    /\ fwd_out' = forward(x_in, channels_out)
    /\ UNCHANGED <<encoder_layer, decoder_layer, crop_out, x_in, channels_out>>
    /\ UNCHANGED not_unet

NextUNet == Crop \/ Forward

-----------------------------------------------------------------------------
(* Properties of crop and forward. *)

EncoderCoversDecoder ==
    /\ size(encoder_layer)[3] >= size(decoder_layer)[3]
    /\ size(encoder_layer)[4] >= size(decoder_layer)[4]

\* C1: whenever crop has run on an encoder layer at least as high and as wide
\* as the decoder layer, the tensor it returned has the decoder layer's height
\* and width and the encoder layer's batch size and channel count.
CropMatchesDecoder ==
    (unet_op = "crop" /\ EncoderCoversDecoder) =>
        size(crop_out) = <<encoder_layer.n, encoder_layer.c,
                           size(decoder_layer)[3], size(decoder_layer)[4]>>

\* C1 witness: crop has run with an odd height difference (3) and an even
\* width difference (2).
CropOddEvenReached ==
    /\ unet_op = "crop"
    /\ size(encoder_layer)[3] - size(decoder_layer)[3] = 3
    /\ size(encoder_layer)[4] - size(decoder_layer)[4] = 2
    /\ size(crop_out)[3] = size(decoder_layer)[3]
    /\ size(crop_out)[4] = size(decoder_layer)[4]

\* The labels of `full` left when `lead` are removed at the leading edge and
\* `trail` at the trailing edge.
Trimmed(full, lead, trail) == SubSeq(full, lead + 1, Len(full) - trail)

\* C11: whenever crop has run on an encoder layer at least as high and as wide
\* as the decoder layer, then in each spatial dimension, with size difference
\* d, the rows (columns) it returned are the encoder layer's without the last
\* floor(d/2) and without the first floor(d/2), plus one more of the first
\* when d is odd; the two amounts differ by at most one.
CropIsSymmetric ==
    (unet_op = "crop" /\ EncoderCoversDecoder) =>
        LET dY == size(encoder_layer)[3] - size(decoder_layer)[3]
            dX == size(encoder_layer)[4] - size(decoder_layer)[4]
            leadY == (dY \div 2) + (IF dY % 2 = 1 THEN 1 ELSE 0)
            leadX == (dX \div 2) + (IF dX % 2 = 1 THEN 1 ELSE 0)
        IN  /\ crop_out.rows = Trimmed(encoder_layer.rows, leadY, dY \div 2)
            /\ crop_out.cols = Trimmed(encoder_layer.cols, leadX, dX \div 2)
            /\ leadY - (dY \div 2) \in {0, 1}
            /\ leadX - (dX \div 2) \in {0, 1}

\* C11 witness: crop has run on a 4 x 3 encoder layer and a 1 x 2 decoder
\* layer (differences 3 and 1) and has kept row 3 and columns 2, 3: two rows
\* and one column went at the leading edge, one row and none at the trailing.
CropOddLeadingReached ==
    /\ unet_op = "crop"
    /\ size(encoder_layer)[3] = 4 /\ size(decoder_layer)[3] = 1
    /\ size(encoder_layer)[4] = 3 /\ size(decoder_layer)[4] = 2
    /\ crop_out.rows = <<3>>
    /\ crop_out.cols = <<2, 3>>

\* C2: whenever forward has run on an input of shape (batch, channels_in, H, W)
\* with H >= 8 and W >= 8, it returned an output of shape
\* (batch, channels_out, H, W).
ForwardKeepsShape ==
    (unet_op = "forward" /\ size(x_in)[3] >= 8 /\ size(x_in)[4] >= 8) =>
        /\ fwd_out.status = "ok"
        /\ fwd_out.shape = <<x_in.n, channels_out, size(x_in)[3], size(x_in)[4]>>

-----------------------------------------------------------------------------
(* MyDataset *)

\* The permutations of 0..n-1, as sequences: what np.random.shuffle can leave
\* in member_indices = np.arange(n).
Shuffles(n) ==
    {p \in [1..n -> 0..(n - 1)] : \A i, j \in 1..n : i # j => p[i] # p[j]}

\* member_indices[:self.split]
TrainIndices(member_indices, sp) == PySlice(member_indices, 0, sp)

\* A mutant of TestIndices: the test members start one member early.
TestIndices_OneEarly(member_indices, sp) ==
    PySlice(member_indices, sp - 1, Len(member_indices))

\* member_indices[self.split:]
TestIndices(member_indices, sp) ==
    PySlice(member_indices, sp, Len(member_indices))

\* data.isel(member=indices, time=idx): the cells <<member, time>> picked, in
\* the order of the indices.
isel(indices, idx) == [i \in 1..Len(indices) |-> <<indices[i], idx>>]

NoReturn == [op |-> "none"]

IdleDataset ==
    /\ ds_pc = "idle"
    /\ data = [members |-> 0, times |-> 0]
    /\ split = 0
    /\ train_indices = << >>
    /\ test_indices = << >>
    /\ ds_ret = NoReturn

\* MyDataset(data, split) is about to be constructed, on any data and split.
InitDataset ==
    \E n \in 0..MaxMembers, t \in 1..MaxTimes, sp \in -1..(MaxMembers + 1) :
        /\ ds_pc = "new"
        /\ data = [members |-> n, times |-> t]
        /\ split = sp
        /\ train_indices = << >>
        /\ test_indices = << >>
        /\ ds_ret = NoReturn

\* MyDataset.__init__
DatasetInit ==
    /\ ds_pc = "new"
    /\ \E member_indices \in Shuffles(data.members) :
        /\ train_indices' = TrainIndices(member_indices, split)
        /\ test_indices' = TestIndices(member_indices, split)
    /\ ds_pc' = "ready"
    /\ UNCHANGED <<data, split, ds_ret>>
    /\ UNCHANGED not_ds

\* MyDataset.__len__
DatasetLen ==
    /\ ds_pc = "ready"
    /\ ds_ret' = [op |-> "len", value |-> data.times]
    /\ UNCHANGED <<ds_pc, data, split, train_indices, test_indices>>
    /\ UNCHANGED not_ds

\* MyDataset.__getitem__(idx)
DatasetGetItem ==
    /\ ds_pc = "ready"
    /\ \E idx \in 0..(data.times - 1) :
        ds_ret' = [op |-> "getitem", idx |-> idx,
                   x |-> isel(train_indices, idx),
                   y |-> isel(test_indices, idx)]
    /\ UNCHANGED <<ds_pc, data, split, train_indices, test_indices>>
    /\ UNCHANGED not_ds

NextDataset == DatasetInit \/ DatasetLen \/ DatasetGetItem

-----------------------------------------------------------------------------
(* Properties of MyDataset. *)

SeqSet(s) == {s[i] : i \in 1..Len(s)}

SplitInRange == 0 <= split /\ split <= data.members

\* The state part of C3: once a dataset over N members is constructed with
\* 0 <= split <= N, train_indices and test_indices are disjoint, cover
\* 0..N-1, and hold split and N - split members; __len__ returns the number
\* of time steps and __getitem__(idx) returns the train members and the test
\* members at time idx.
DatasetSplitInv ==
    (ds_pc = "ready" /\ SplitInRange) =>
        /\ SeqSet(train_indices) \cap SeqSet(test_indices) = {}
        /\ SeqSet(train_indices) \cup SeqSet(test_indices) = 0..(data.members - 1)
        /\ Cardinality(SeqSet(train_indices)) = split
        /\ Len(train_indices) = split
        /\ Cardinality(SeqSet(test_indices)) = data.members - split
        /\ Len(test_indices) = data.members - split
        /\ ds_ret.op = "len" => ds_ret.value = data.times
        /\ ds_ret.op = "getitem" =>
            /\ ds_ret.x = [i \in 1..split |-> <<train_indices[i], ds_ret.idx>>]
            /\ ds_ret.y = [i \in 1..(data.members - split) |->
                              <<test_indices[i], ds_ret.idx>>]

\* The step part of C3: no call on a constructed dataset changes the index
\* sets.
DatasetSplitStable ==
    ds_pc = "ready" =>
        /\ train_indices' = train_indices
        /\ test_indices' = test_indices

\* C3: MyDataset splits the members into disjoint input and target members
\* that cover all members, split of them input and the rest target; the split
\* never changes after construction, every __getitem__ uses it, and __len__ is
\* the number of time steps.
DatasetSplit == []DatasetSplitInv /\ [][DatasetSplitStable]_vars

\* C3 witness: a dataset of three members split 1 : 2 has served an item.
DatasetItemServed ==
    /\ ds_pc = "ready"
    /\ data.members = 3
    /\ split = 1
    /\ ds_ret.op = "getitem"
    /\ Len(ds_ret.x) = 1
    /\ Len(ds_ret.y) = 2

-----------------------------------------------------------------------------
(* MLflow, as far as the program uses it. *)

None == [none |-> TRUE]

\* "nid" in hostname: the characters of needle occur in a row in s.
Contains(s, needle) ==
    \E i \in 0..(Len(s) - Len(needle)) :
        \A j \in 1..Len(needle) : s[i + j] = needle[j]

\* mlflow.get_experiment_by_name(name): the experiment, or None.
get_experiment_by_name(exps, name) ==
    IF \E i \in 1..Len(exps) : exps[i].name = name
    THEN exps[CHOOSE i \in 1..Len(exps) :
                 /\ exps[i].name = name
                 /\ \A j \in 1..(i - 1) : exps[j].name # name]
    ELSE None

\* mlflow.create_experiment(name, artifact_location): a new experiment; an
\* MlflowException when the name is taken.
create_experiment(exps, name, artifact_location) ==
    IF \E i \in 1..Len(exps) : exps[i].name = name
    THEN [status |-> "MlflowException", experiments |-> exps]
    ELSE [status |-> "ok",
          experiments |-> Append(exps, [name |-> name,
                                        artifact_location |-> artifact_location])]

\* The hostname decides the artifact path and the experiment name.
SelectExperiment(host) ==
    IF Contains(host, <<"n", "i", "d">>)
    THEN [artifact_path |-> "/scratch/e1000/meteoswiss/scratch/sadamov/pyprojects_data/weathergraphnet/mlruns",
          experiment_name |-> "WGN_balfrin"]
    ELSE [artifact_path |-> "/scratch/sadamov/pyprojects_data/weathergraphnet/mlruns",
          experiment_name |-> "WGN"]

\* A mutant of setup_mlflow: the experiment is created without looking for it.
setup_mlflow_AlwaysCreate(exps, active, host) ==
    LET sel == SelectExperiment(host)
        created == create_experiment(exps, sel.experiment_name, sel.artifact_path)
    IN  IF created.status # "ok"
        THEN [status |-> created.status, experiments |-> exps,
              active |-> active, value |-> << >>]
        ELSE [status |-> "ok", experiments |-> created.experiments,
              active |-> sel.experiment_name,
              value |-> <<sel.artifact_path, sel.experiment_name>>]

\* setup_mlflow() on a host, on a store exps with the experiment `active`
\* active: the store and the active experiment it leaves, and what it returns
\* or raises.
setup_mlflow(exps, active, host) ==
    LET sel == SelectExperiment(host)
        existing_experiment == get_experiment_by_name(exps, sel.experiment_name)
        created == IF existing_experiment = None
                   THEN create_experiment(exps, sel.experiment_name,
                                          sel.artifact_path)
                   ELSE [status |-> "ok", experiments |-> exps]
    IN  IF created.status # "ok"
        THEN [status |-> created.status, experiments |-> exps,
              active |-> active, value |-> << >>]
        ELSE [status |-> "ok", experiments |-> created.experiments,
              active |-> sel.experiment_name,
              value |-> <<sel.artifact_path, sel.experiment_name>>]

\* The run with the latest start time among rs (a non-empty set of runs).
Latest(rs) == CHOOSE r \in rs : \A q \in rs : q.start_time <= r.start_time

\* The runs of rs ordered by start_time, latest first.
RECURSIVE SortByStartTimeDesc(_)
SortByStartTimeDesc(rs) ==
    IF rs = {} THEN << >>
    ELSE <<Latest(rs)>> \o SortByStartTimeDesc(rs \ {Latest(rs)})

\* s[:n] of a list.
Head_(s, n) == PySlice(s, 0, n)

\* A mutant of search_runs: the runs of every experiment are searched.
search_runs_AnyExperiment(rs, experiment_name, max_results) ==
    [type |-> "DataFrame",
     rows |-> Head_(SortByStartTimeDesc({rs[i] : i \in 1..Len(rs)}),
                    max_results)]

\* mlflow.search_runs(experiment_names=..., order_by=["start_time desc"],
\* max_results=...): the runs of the named experiment, latest first (which is
\* also MLflow's order when no order_by is given), cut to max_results, as a
\* pandas DataFrame: the script takes its rows with .iloc.
search_runs(rs, experiment_name, max_results) ==
    [type |-> "DataFrame",
     rows |-> Head_(SortByStartTimeDesc(
                        {rs[i] : i \in {j \in 1..Len(rs) :
                                           rs[j].experiment = experiment_name}}),
                    max_results)]

\* Python's truth value of v, as `not v` and `if v` take it: a list is true
\* when it is not empty; a pandas DataFrame has no truth value and raises
\* ValueError, empty or not.
Truth(v) == IF v.type = "DataFrame" THEN "ValueError"
            ELSE IF Len(v.rows) > 0 THEN "True" ELSE "False"

\* get_runs(experiment_name): the runs, or the ValueError it raises.
get_runs(rs, experiment_name) ==
    LET found == search_runs(rs, experiment_name, Len(rs))
    IN  IF Truth(found) = "ValueError"
        THEN [status |-> "ValueError", value |-> << >>]
        ELSE IF Truth(found) = "False"
        THEN [status |-> "ValueError", value |-> << >>]
        ELSE [status |-> "ok", value |-> found]

\* os.path.abspath of a path given by its components: each ".." takes the
\* component before it away.
RECURSIVE abspath(_)
abspath(path) ==
    IF \E i \in 1..Len(path) : path[i] = ".."
    THEN LET i == CHOOSE k \in 1..Len(path) :
                      /\ path[k] = ".."
                      /\ \A j \in 1..(k - 1) : path[j] # ".."
         IN  abspath(SubSeq(path, 1, i - 2) \o SubSeq(path, i + 1, Len(path)))
    ELSE path

\* The ids MLflow gives new runs, in the order it gives them.
RunIds == <<"run1", "run2", "run3", "run4", "run5", "run6", "run7", "run8">>

\* mlflow.start_run() in the active experiment: a new run, started now.
NewRun(rs, experiment_name) ==
    [run_id |-> RunIds[Len(rs) + 1],
     experiment |-> experiment_name,
     start_time |-> Len(rs) + 1]

\* The artifact location of the active experiment.
ArtifactLocation(exps, active) ==
    get_experiment_by_name(exps, active).artifact_location

\* best_model_path, from mlflow.get_artifact_uri(), which starts a run when
\* none is active: <artifact location>/<the new run>/artifacts, then "../../",
\* then <run_id>/artifacts/models.
BestModelPath(exps, active, rs, run_id) ==
    LET uri == <<ArtifactLocation(exps, active),
                 NewRun(rs, active).run_id, "artifacts">>
    IN  abspath(uri \o <<"..", "..">>) \o <<run_id, "artifacts", "models">>

\* load_best_model(experiment_name) of utils.py: what it loads, or raises.
\* runs[0] of a DataFrame looks up the column 0: a KeyError.
load_best_model(exps, active, rs, experiment_name) ==
    LET got == get_runs(rs, experiment_name)
    IN  IF got.status # "ok"
        THEN [status |-> got.status, loaded |-> << >>, started |-> FALSE]
        ELSE IF got.value.type = "DataFrame"
        THEN [status |-> "KeyError", loaded |-> << >>, started |-> FALSE]
        ELSE [status |-> "ok", started |-> TRUE,
              loaded |-> BestModelPath(exps, active, rs,
                                       got.value.rows[1].run_id)]

-----------------------------------------------------------------------------
(* The training script (train_cnn.py run as a program) and callers of the    *)
(* MLflow helpers of utils.py, on a tracking store.                          *)

Hostnames == {<<"n", "i", "d", "7">>, <<"u", "n", "i", "d">>,
              <<"t", "s", "a">>, <<"n", "i">>}

ExperimentNames == {"WGN", "WGN_balfrin"}

Experiment(name, artifact_location) ==
    [name |-> name, artifact_location |-> artifact_location]

\* The stores the program may find: no experiment, or experiments made by
\* earlier runs of the program, or by hand at another artifact location.
ExperimentStores ==
    {<< >>,
     <<Experiment("WGN", "/scratch/sadamov/pyprojects_data/weathergraphnet/mlruns")>>,
     <<Experiment("WGN_balfrin", "/scratch/e1000/meteoswiss/scratch/sadamov/pyprojects_data/weathergraphnet/mlruns")>>,
     <<Experiment("WGN_balfrin", "/scratch/e1000/meteoswiss/scratch/sadamov/pyprojects_data/weathergraphnet/mlruns"),
       Experiment("WGN", "/tmp/mlruns")>>}

\* The runs a store may hold: k runs in storage order, of the store's
\* experiments, with distinct start times in any order.
RunStores(exps) ==
    UNION {{[i \in 1..k |-> [run_id |-> RunIds[i], experiment |-> ex[i],
                             start_time |-> st[i]]] :
              ex \in [1..k -> {exps[i].name : i \in 1..Len(exps)}],
              st \in {f \in [1..k -> 1..k] :
                         \A i, j \in 1..k : i # j => f[i] # f[j]}} :
           k \in 0..MaxRuns}

NoCall == [op |-> "none", status |-> "none"]

IdleTracking ==
    /\ pc = "idle"
    /\ retrain = FALSE
    /\ as_main = FALSE
    /\ hostname = << >>
    /\ experiments = << >>
    /\ active_experiment = "none"
    /\ runs = << >>
    /\ bound_names = {}
    /\ trained = FALSE
    /\ evaluated = FALSE
    /\ plotted = FALSE
    /\ loaded_model = << >>
    /\ call_ret = NoCall

\* The script is about to run (as __main__ or imported, with retrain on or
\* off), or a program is about to call the helpers of utils.py, on some host
\* and some store.
InitTracking ==
    /\ \/ pc = "start" /\ retrain \in BOOLEAN /\ as_main \in BOOLEAN
       \/ pc = "lib" /\ retrain = FALSE /\ as_main = TRUE
    /\ hostname \in Hostnames
    /\ experiments \in ExperimentStores
    /\ runs \in RunStores(experiments)
    /\ active_experiment = "none"
    /\ bound_names = {}
    /\ trained = FALSE
    /\ evaluated = FALSE
    /\ plotted = FALSE
    /\ loaded_model = << >>
    /\ call_ret = NoCall

\* train_cnn.py 348-372: the data is loaded and coarsened.
LoadData ==
    /\ pc = "start" /\ as_main
    /\ pc' = "data"
    /\ bound_names' = bound_names \cup {"data_train", "data_test"}
    /\ UNCHANGED <<retrain, as_main, hostname, experiments, active_experiment,
                   runs, trained, evaluated, plotted, loaded_model, call_ret>>
    /\ UNCHANGED not_trk

\* train_cnn.py 374-380: the datasets and dataloaders are made.
MakeDatasets ==
    /\ pc = "data"
    /\ pc' = "datasets"
    /\ bound_names' = bound_names \cup {"member_split", "dataset", "dataloader",
                                        "dataset_test", "dataloader_test"}
    /\ UNCHANGED <<retrain, as_main, hostname, experiments, active_experiment,
                   runs, trained, evaluated, plotted, loaded_model, call_ret>>
    /\ UNCHANGED not_trk

\* train_cnn.py 382-411: the model, the optimizer, the loss; train_model is
\* bound to the model's method.
BuildModel ==
    /\ pc = "datasets"
    /\ pc' = "model"
    /\ bound_names' = bound_names \cup {"model", "optimizer", "scheduler",
                                        "loss_fn", "device", "train_model"}
    /\ UNCHANGED <<retrain, as_main, hostname, experiments, active_experiment,
                   runs, trained, evaluated, plotted, loaded_model, call_ret>>
    /\ UNCHANGED not_trk

\* train_cnn.py 413-429: the statements of setup_mlflow, inline.
MainSetupMlflow ==
    /\ pc = "model"
    /\ LET r == setup_mlflow(experiments, active_experiment, hostname)
       IN  /\ experiments' = r.experiments
           /\ active_experiment' = r.active
           /\ pc' = IF r.status = "ok" THEN "mlflow" ELSE "failed"
           /\ call_ret' = [op |-> "main_setup_mlflow", status |-> r.status]
    /\ bound_names' = bound_names \cup {"hostname", "artifact_path",
                                        "experiment_name", "existing_experiment"}
    /\ UNCHANGED <<retrain, as_main, hostname, runs, trained, evaluated,
                   plotted, loaded_model>>
    /\ UNCHANGED not_trk

\* train_cnn.py 432-445: a run is started and the model trained in it.
MainTrain ==
    /\ pc = "mlflow" /\ retrain
    /\ runs' = Append(runs, NewRun(runs, active_experiment))
    /\ trained' = TRUE
    /\ pc' = "trained"
    /\ UNCHANGED <<retrain, as_main, hostname, experiments, active_experiment,
                   bound_names, evaluated, plotted, loaded_model, call_ret>>
    /\ UNCHANGED not_trk

\* train_cnn.py 446-470: the checkpoint of the most recent run is loaded and
\* evaluate bound to the loaded model's method.  With no run found the
\* script prints a message and runs.iloc[0] raises IndexError.
MainLoadBest ==
    /\ pc = "mlflow" /\ ~retrain
    /\ LET name == SelectExperiment(hostname).experiment_name
           found == search_runs(runs, name, 1)
       IN  IF Len(found.rows) = 0
           THEN /\ pc' = "failed"
                /\ call_ret' = [op |-> "main_load_best", status |-> "IndexError",
                                experiment |-> name, runs_before |-> runs]
                /\ UNCHANGED <<runs, loaded_model, bound_names>>
           ELSE /\ loaded_model' = BestModelPath(experiments, active_experiment,
                                                 runs, found.rows[1].run_id)
                /\ runs' = Append(runs, NewRun(runs, active_experiment))
                /\ bound_names' = bound_names \cup {"runs", "run_id",
                                       "best_model_path", "evaluate"}
                /\ pc' = "loaded"
                /\ call_ret' = [op |-> "main_load_best", status |-> "ok",
                                experiment |-> name, runs_before |-> runs]
    /\ UNCHANGED <<retrain, as_main, hostname, experiments, active_experiment,
                   trained, evaluated, plotted>>
    /\ UNCHANGED not_trk

\* train_cnn.py 471-479: y_pred = [], then evaluate(...) is called: a
\* NameError when no statement has bound evaluate.
MainEvaluate ==
    /\ pc \in {"trained", "loaded"}
    /\ IF "evaluate" \in bound_names
       THEN /\ evaluated' = TRUE
            /\ bound_names' = bound_names \cup {"y_pred", "test_loss"}
            /\ pc' = "evaluated"
            /\ call_ret' = [op |-> "main_evaluate", status |-> "ok"]
       ELSE /\ evaluated' = evaluated
            /\ bound_names' = bound_names \cup {"y_pred"}
            /\ pc' = "failed"
            /\ call_ret' = [op |-> "main_evaluate", status |-> "NameError"]
    /\ UNCHANGED <<retrain, as_main, hostname, experiments, active_experiment,
                   runs, trained, plotted, loaded_model>>
    /\ UNCHANGED not_trk

\* train_cnn.py 482-518, at module level: the predictions are reshaped,
\* animated and saved.  When the module is imported these are the first
\* statements to run after the definitions, and y_pred is not bound.
MainPlot ==
    /\ \/ pc = "evaluated"
       \/ pc = "start" /\ ~as_main
    /\ IF {"y_pred", "data_test", "member_split"} \subseteq bound_names
       THEN /\ plotted' = TRUE
            /\ pc' = "done"
            /\ call_ret' = [op |-> "main_plot", status |-> "ok"]
       ELSE /\ plotted' = plotted
            /\ pc' = "failed"
            /\ call_ret' = [op |-> "main_plot", status |-> "NameError"]
    /\ UNCHANGED <<retrain, as_main, hostname, experiments, active_experiment,
                   runs, bound_names, trained, evaluated, loaded_model>>
    /\ UNCHANGED not_trk

\* setup_mlflow() of utils.py, called on some host.
SetupMlflow ==
    /\ pc = "lib"
    /\ \E host \in Hostnames :
        LET r == setup_mlflow(experiments, active_experiment, host)
        IN  /\ hostname' = host
            /\ experiments' = r.experiments
            /\ active_experiment' = r.active
            /\ call_ret' = [op |-> "setup_mlflow", status |-> r.status,
                            value |-> r.value]
    /\ UNCHANGED <<pc, retrain, as_main, runs, bound_names, trained, evaluated,
                   plotted, loaded_model>>
    /\ UNCHANGED not_trk

\* get_runs(experiment_name) of utils.py.
GetRuns ==
    /\ pc = "lib"
    /\ \E name \in ExperimentNames :
        LET r == get_runs(runs, name)
        IN  call_ret' = [op |-> "get_runs", status |-> r.status,
                         experiment |-> name, value |-> r.value]
    /\ UNCHANGED <<pc, retrain, as_main, hostname, experiments,
                   active_experiment, runs, bound_names, trained, evaluated,
                   plotted, loaded_model>>
    /\ UNCHANGED not_trk

\* load_best_model(experiment_name) of utils.py.
LoadBestModel ==
    /\ pc = "lib"
    /\ \E name \in ExperimentNames :
        LET r == load_best_model(experiments, active_experiment, runs, name)
        IN  /\ call_ret' = [op |-> "load_best_model", status |-> r.status,
                            experiment |-> name, runs_before |-> runs]
            /\ loaded_model' = IF r.status = "ok" THEN r.loaded ELSE loaded_model
            /\ runs' = IF r.started
                       THEN Append(runs, NewRun(runs, active_experiment))
                       ELSE runs
    /\ UNCHANGED <<pc, retrain, as_main, hostname, experiments,
                   active_experiment, bound_names, trained, evaluated, plotted>>
    /\ UNCHANGED not_trk

NextTracking ==
    \/ LoadData
    \/ MakeDatasets
    \/ BuildModel
    \/ MainSetupMlflow
    \/ MainTrain
    \/ MainLoadBest
    \/ MainEvaluate
    \/ MainPlot
    \/ SetupMlflow
    \/ GetRuns
    \/ LoadBestModel

-----------------------------------------------------------------------------
(* Properties of the script's pipeline and of the MLflow helpers. *)

\* The runs of an experiment among rs.
RunsOf(rs, name) == {rs[i] : i \in {j \in 1..Len(rs) : rs[j].experiment = name}}

\* The script has ended, normally or by an exception.
ScriptEnded == pc \in {"done", "failed"}

\* C4: the stages run in order; in a run with retrain enabled, once
\* train_model has completed the script goes on to evaluate the trained model
\* and then to plot, so a run that has trained ends evaluated and plotted; and
\* no run has plotted without having evaluated.
PipelineInOrder ==
    /\ plotted => evaluated
    /\ evaluated => (trained \/ loaded_model # << >>)
    /\ (retrain /\ trained /\ ScriptEnded) => (evaluated /\ plotted)

\* C5: get_runs raises ValueError when the experiment has no runs and
\* otherwise returns the runs found; load_best_model on an experiment with no
\* runs fails with that error and loads nothing.
GetRunsContract ==
    /\ call_ret.op = "get_runs" =>
        IF RunsOf(runs, call_ret.experiment) = {}
        THEN call_ret.status = "ValueError"
        ELSE /\ call_ret.status = "ok"
             /\ {call_ret.value.rows[i] : i \in 1..Len(call_ret.value.rows)}
                    = RunsOf(runs, call_ret.experiment)
    /\ (call_ret.op = "load_best_model"
            /\ RunsOf(call_ret.runs_before, call_ret.experiment) = {}) =>
        /\ call_ret.status = "ValueError"
        /\ loaded_model = << >>

\* The last n components of a path.
Tail_(path, n) == SubSeq(path, Len(path) - n + 1, Len(path))

\* C6: whenever the best model has been asked for (by load_best_model, or by
\* the script with retrain disabled) in an experiment that had runs, the model
\* loaded is the one under <run_id>/artifacts/models of the run that had the
\* latest start time.
LoadsLatestCheckpoint ==
    (call_ret.op \in {"load_best_model", "main_load_best"}
        /\ RunsOf(call_ret.runs_before, call_ret.experiment) # {}) =>
        /\ call_ret.status = "ok"
        /\ Len(loaded_model) >= 3
        /\ Tail_(loaded_model, 3)
             = <<Latest(RunsOf(call_ret.runs_before, call_ret.experiment)).run_id,
                 "artifacts", "models">>

\* How many experiments of the store have the name.
CountNamed(exps, name) == Cardinality({i \in 1..Len(exps) : exps[i].name = name})

\* What the claim C9 says the host selects.
SelectedName == IF Contains(hostname, <<"n", "i", "d">>) THEN "WGN_balfrin" ELSE "WGN"
SelectedPath ==
    IF Contains(hostname, <<"n", "i", "d">>)
    THEN "/scratch/e1000/meteoswiss/scratch/sadamov/pyprojects_data/weathergraphnet/mlruns"
    ELSE "/scratch/sadamov/pyprojects_data/weathergraphnet/mlruns"

\* After setup_mlflow (or the script's copy of its statements) there is
\* exactly one experiment of the selected name and it is the active one.
OneActiveExperiment ==
    (call_ret.op \in {"setup_mlflow", "main_setup_mlflow"}) =>
        /\ call_ret.status = "ok"
        /\ CountNamed(experiments, SelectedName) = 1
        /\ active_experiment = SelectedName

\* A call of setup_mlflow creates the experiment only when the store has none
\* of the selected name; the experiments there stay as they are.
CreatesOnlyWhenMissing ==
    (call_ret'.op \in {"setup_mlflow", "main_setup_mlflow"}
        /\ <<experiments, call_ret, hostname, pc>>
             # <<experiments', call_ret', hostname', pc'>>) =>
        /\ SubSeq(experiments', 1, Len(experiments)) = experiments
        /\ Len(experiments') =
             Len(experiments)
               + (IF \E i \in 1..Len(experiments) :
                        experiments[i].name
                          = (IF Contains(hostname', <<"n", "i", "d">>)
                             THEN "WGN_balfrin" ELSE "WGN")
                  THEN 0 ELSE 1)

\* C9 as stated: ..., and the pair (selected name, selected artifact path) is
\* what setup_mlflow returns.
SetupMlflowReturnsNamePath ==
    /\ OneActiveExperiment
    /\ call_ret.op = "setup_mlflow" => call_ret.value = <<SelectedName, SelectedPath>>

\* The state part of C9 as amended: ..., and setup_mlflow returns the tuple
\* (selected artifact path, selected name).
SetupMlflowReturnsPathName ==
    /\ OneActiveExperiment
    /\ call_ret.op = "setup_mlflow" => call_ret.value = <<SelectedPath, SelectedName>>

\* C9 (amended): setup_mlflow creates the experiment only when none of the
\* selected name exists, so after any number of calls there is exactly one
\* experiment of that name and it is the active one; the name and artifact
\* path are ("WGN_balfrin", the e1000 scratch path) when the hostname contains
\* "nid" and ("WGN", the default scratch path) otherwise, and setup_mlflow
\* returns them as the tuple (artifact path, experiment name).
SetupMlflowIdempotent ==
    []SetupMlflowReturnsPathName /\ [][CreatesOnlyWhenMissing]_vars

\* C9 witness: setup_mlflow has been called on a "nid" host on a store that
\* already had the experiment, after an earlier call had created "WGN".
SetupCalledTwice ==
    /\ call_ret.op = "setup_mlflow"
    /\ Contains(hostname, <<"n", "i", "d">>)
    /\ Len(experiments) = 2
    /\ experiments[1].name = "WGN_balfrin"
    /\ experiments[2].artifact_location
         = "/scratch/sadamov/pyprojects_data/weathergraphnet/mlruns"
    /\ active_experiment = "WGN_balfrin"

\* The script, run as __main__ with retrain disabled, has searched the runs
\* of its experiment and has found none.
NoRunsFound ==
    /\ as_main /\ ~retrain
    /\ pc \in {"loaded", "evaluated", "done", "failed"}
    /\ RunsOf(runs, SelectedName) = {}

\* After a search that found no run the script has stopped with an error,
\* with no model loaded, nothing evaluated and nothing plotted.
NoRunsFoundIsAnError ==
    NoRunsFound =>
        /\ pc = "failed"
        /\ call_ret.op = "main_load_best"
        /\ call_ret.status \notin {"ok", "none"}
        /\ loaded_model = << >>
        /\ "evaluate" \notin bound_names
        /\ ~evaluated
        /\ ~plotted

\* The step of the script that searches the runs: with retrain disabled and
\* no run of the experiment in the store it ends the script.
SearchWithoutRunsFails ==
    (pc = "mlflow" /\ as_main /\ ~retrain /\ RunsOf(runs, SelectedName) = {}) =>
        /\ pc' = "failed"
        /\ loaded_model' = << >>
        /\ runs' = runs
        /\ ~evaluated' /\ ~plotted'

\* C12: in the script with retrain disabled, when the search for the
\* experiment's latest run returns no run, the script raises an error: it loads
\* no model, and neither evaluates nor plots.
NoRunsFoundRaises ==
    []NoRunsFoundIsAnError /\ [][SearchWithoutRunsFails]_vars

\* C12 witness: the script with retrain disabled has raised at the search, on
\* a store that holds runs of another experiment only.
NoRunsFoundReached ==
    /\ NoRunsFound
    /\ Len(runs) >= 1
    /\ pc = "failed"
    /\ call_ret.op = "main_load_best"
    /\ call_ret.status = "IndexError"

-----------------------------------------------------------------------------
(* load_config_and_data *)

\* A dataset, as far as its origin, its sizes and the coarsenings it went
\* through go.
Dataset(path, height, ncells) ==
    [path |-> path, height |-> height, ncells |-> ncells, coarsened |-> << >>]

\* data.coarsen(height=factor, ncells=factor): xarray's boundary="exact"
\* takes only sizes that are multiples of the factor.
CoarsenOk(d, factor) == d.height % factor = 0 /\ d.ncells % factor = 0

\* downscale_data(data, factor), where CoarsenOk.
downscale_data(d, factor) ==
    [d EXCEPT !.height = @ \div factor,
              !.ncells = @ \div factor,
              !.coarsened = Append(@, factor)]

\* load_data(config): (data_train, data_test), read at the configured paths.
load_data(cfg, disk) ==
    [data_train |-> disk[cfg.data_train], data_test |-> disk[cfg.data_test]]

\* A mutant of ShouldCoarsen: a factor of 1 coarsens too.
ShouldCoarsen_FromOne(cfg) == cfg.coarsen >= 1

\* if config["coarsen"] > 1
ShouldCoarsen(cfg) == cfg.coarsen > 1

\* load_config_and_data(): the downscale_data calls it makes, in order, and
\* what it returns or raises.
load_config_and_data(cfg, disk) ==
    LET loaded == load_data(cfg, disk)
    IN  IF ~ShouldCoarsen(cfg)
        THEN [status |-> "ok", calls |-> << >>,
              value |-> <<cfg, loaded.data_train, loaded.data_test>>]
        ELSE IF ~CoarsenOk(loaded.data_test, cfg.coarsen)
        THEN [status |-> "ValueError", value |-> << >>,
              calls |-> <<<<"data_test", cfg.coarsen>>>>]
        ELSE IF ~CoarsenOk(loaded.data_train, cfg.coarsen)
        THEN [status |-> "ValueError", value |-> << >>,
              calls |-> <<<<"data_test", cfg.coarsen>>,
                          <<"data_train", cfg.coarsen>>>>]
        ELSE [status |-> "ok",
              calls |-> <<<<"data_test", cfg.coarsen>>,
                          <<"data_train", cfg.coarsen>>>>,
              value |-> <<cfg, downscale_data(loaded.data_train, cfg.coarsen),
                          downscale_data(loaded.data_test, cfg.coarsen)>>]

Paths == {"/data/data_train.zarr", "/data/data_test.zarr"}

NoConfig == [coarsen |-> 0, data_train |-> "", data_test |-> ""]
NoValue == [status |-> "none", value |-> << >>]

IdleConfig ==
    /\ cfg_pc = "idle"
    /\ config = NoConfig
    /\ zarr = << >>
    /\ downscale_calls = << >>
    /\ cfg_ret = NoValue

\* load_config_and_data is about to run, on any configuration and datasets.
InitConfig ==
    /\ cfg_pc = "call"
    /\ \E f \in -1..MaxFactor, ptrain \in Paths, ptest \in Paths :
        config = [coarsen |-> f, data_train |-> ptrain, data_test |-> ptest]
    /\ \E h1 \in 1..MaxCells, w1 \in 1..MaxCells, h2 \in 1..MaxCells :
        zarr = [p \in Paths |->
                  IF p = "/data/data_train.zarr" THEN Dataset(p, h1, w1)
                  ELSE Dataset(p, h2, w1)]
    /\ downscale_calls = << >>
    /\ cfg_ret = NoValue

\* load_config_and_data() runs and returns or raises.
LoadConfigAndData ==
    /\ cfg_pc = "call"
    /\ LET r == load_config_and_data(config, zarr)
       IN  /\ cfg_pc' = IF r.status = "ok" THEN "returned" ELSE "raised"
           /\ downscale_calls' = r.calls
           /\ cfg_ret' = [status |-> r.status, value |-> r.value]
    /\ UNCHANGED <<config, zarr>>
    /\ UNCHANGED not_cfg

NextConfig == LoadConfigAndData

-----------------------------------------------------------------------------
(* Properties of load_config_and_data. *)

-----------------------------------------------------------------------------
(* MaskedLoss.forward *)

\* loss * mask, cell by cell.
Times(a, b) == [i \in 1..Len(a) |-> a[i] * b[i]]

\* torch.sum of a tensor.
RECURSIVE Sum(_)
Sum(t) == IF t = << >> THEN 0 ELSE t[1] + Sum(SubSeq(t, 2, Len(t)))

\* a / b of two tensor sums: the quotient num/den, not a number when 0/0 and
\* infinite when the divisor alone is 0.
Quotient(num, den) ==
    IF den # 0 THEN [kind |-> "num", num |-> num, den |-> den]
    ELSE IF num = 0 THEN [kind |-> "nan", num |-> 0, den |-> 0]
    ELSE [kind |-> "inf", num |-> num, den |-> 0]

\* A mutant of MaskedLoss_forward: the mean is taken over all cells.
MaskedLoss_forward_MeanOfAll(loss, m) ==
    Quotient(Sum(Times(loss, m)), Len(m))

\* MaskedLoss.forward(outputs, target, mask), from loss =
\* self.loss_fn(outputs, target) on.
MaskedLoss_forward(loss, m) ==
    LET masked_loss == Times(loss, m)
    IN  Quotient(Sum(masked_loss), Sum(m))

NoQuotient == [kind |-> "none", num |-> 0, den |-> 0]

IdleLoss ==
    /\ loss_pc = "idle"
    /\ cell_loss = << >>
    /\ mask = << >>
    /\ mean_loss = NoQuotient

\* forward is about to run on any per-cell loss and any 0/1 mask.
InitLoss ==
    /\ loss_pc = "call"
    /\ \E n \in 1..MaxLossCells :
        /\ cell_loss \in [1..n -> -1..MaxCellLoss]
        /\ mask \in [1..n -> 0..1]
    /\ mean_loss = NoQuotient

\* MaskedLoss.forward runs and returns.
MaskedLossForward ==
    /\ loss_pc = "call"
    /\ loss_pc' = "returned"
    /\ mean_loss' = MaskedLoss_forward(cell_loss, mask)
    /\ UNCHANGED <<cell_loss, mask>>
    /\ UNCHANGED not_loss

NextLoss == MaskedLossForward

-----------------------------------------------------------------------------
(* Properties of MaskedLoss.forward. *)

Unmasked == {i \in 1..Len(mask) : mask[i] = 1}

\* The sum of f over the finite set S of indices.
RECURSIVE SumOver(_, _)
SumOver(S, f) ==
    IF S = {} THEN 0
    ELSE LET i == CHOOSE j \in S : TRUE IN f[i] + SumOver(S \ {i}, f)

\* C8: for a 0/1 mask with a non-zero entry, forward returns the sum of the
\* per-cell loss over the cells whose mask is 1 divided by the number of such
\* cells, so that any per-cell loss that agrees on those cells gives the same
\* result.
MaskedMeanOverUnmasked ==
    (loss_pc = "returned" /\ Unmasked # {}) =>
        /\ mean_loss.kind = "num"
        /\ mean_loss.num * Cardinality(Unmasked)
             = SumOver(Unmasked, cell_loss) * mean_loss.den
        /\ \A other \in [1..Len(mask) -> -1..MaxCellLoss] :
              (\A i \in Unmasked : other[i] = cell_loss[i]) =>
                  MaskedLoss_forward(other, mask) = mean_loss

\* C8 witness: forward has run on three cells of which the middle one, with a
\* non-zero loss, is masked out.
MaskedCellIgnored ==
    /\ loss_pc = "returned"
    /\ Len(mask) = 3
    /\ mask = <<1, 0, 1>>
    /\ cell_loss = <<1, 2, 2>>
    /\ mean_loss.num = 3
    /\ mean_loss.den = 2

-----------------------------------------------------------------------------
(* UNet.train_model *)

\* Floats: a number, or float('inf').
Num(v) == [kind |-> "num", v |-> v]
PosInf == [kind |-> "inf", v |-> 0]
Unbound == [kind |-> "unbound", v |-> 0]

\* a < b on floats.
Less(a, b) == /\ a.kind = "num"
              /\ b.kind = "inf" \/ (b.kind = "num" /\ a.v < b.v)

\* The unit avg_loss is kept in: 1/Scale, with Scale a multiple of every
\* batch size, so that running_loss / len(output) is exact.
RECURSIVE Factorial(_)
Factorial(n) == IF n <= 1 THEN 1 ELSE n * Factorial(n - 1)
Scale == Factorial(MaxBatchSize)

\* running_loss / len(output)
Average(total, n) == Num((total * Scale) \div n)

\* len(output) of the i-th batch of an epoch: the batch size, but for the last
\* batch, which holds what is left of the dataset.
OutputLen(i, batches, last) == IF i = batches THEN last ELSE MaxBatchSize

\* A mutant of Improves: a loss equal to the best one counts too.
Improves_OrEqual(avg, best) ==
    avg.kind # "unbound" /\ (Less(avg, best) \/ avg = best)

\* avg_loss is not None and avg_loss < best_loss
Improves(avg, best) == avg.kind # "unbound" /\ Less(avg, best)

NoCounts == [zero_grad |-> 0, forward |-> 0, loss_fn |-> 0, backward |-> 0,
             optimizer_step |-> 0, scheduler_step |-> 0, log_metric |-> 0,
             log_model |-> 0]
NoCheckpoint == [epoch |-> -1, weights |-> -1]

IdleTrain ==
    /\ tr_pc = "idle"
    /\ num_epochs = 0
    /\ num_batches = 0
    /\ last_len = 0
    /\ mask_given = FALSE
    /\ scheduler_given = FALSE
    /\ epoch = 0
    /\ batch = 0
    /\ running_loss = 0
    /\ avg_loss = Unbound
    /\ best_loss = PosInf
    /\ weights = 0
    /\ counts = NoCounts
    /\ batch_trace = << >>
    /\ checkpoint = NoCheckpoint
    /\ final_losses = << >>

\* train_model is about to run: any number of epochs, any dataloader (also an
\* empty one), with or without a mask and a scheduler.
InitTrain ==
    /\ tr_pc = "call"
    /\ num_epochs \in 0..MaxEpochs
    /\ num_batches \in 0..MaxBatches
    /\ last_len \in 1..MaxBatchSize
    /\ mask_given \in BOOLEAN
    /\ scheduler_given \in BOOLEAN
    /\ epoch = 0
    /\ batch = 0
    /\ running_loss = 0
    /\ avg_loss = Unbound
    /\ best_loss = PosInf
    /\ weights = 0
    /\ counts = NoCounts
    /\ batch_trace = << >>
    /\ checkpoint = NoCheckpoint
    /\ final_losses = << >>

\* Where the loop of epochs goes at the start of epoch e (0-based): into the
\* epoch's batches, to the end of an epoch without batches, or out.
EpochStart(e) ==
    IF e >= num_epochs THEN "returned"
    ELSE IF num_batches = 0 THEN "epoch_end" ELSE "batch"

\* best_loss = float('inf'), and the first epoch begins: running_loss = 0.0.
TrainBegin ==
    /\ tr_pc = "call"
    /\ best_loss' = PosInf
    /\ epoch' = 0
    /\ batch' = 0
    /\ running_loss' = 0
    /\ tr_pc' = EpochStart(0)
    /\ UNCHANGED <<num_epochs, num_batches, last_len, mask_given,
                   scheduler_given, avg_loss, weights, counts, batch_trace,
                   checkpoint, final_losses>>
    /\ UNCHANGED not_train

\* A mutant of TrainBatch: the scheduler is not stepped in the loop over the
\* batches (as a scheduler stepped once per epoch would be).
TrainBatch_NoSchedulerStep ==
    /\ tr_pc = "batch"
    /\ \E loss \in -1..MaxBatchLoss :
        /\ running_loss' = running_loss + loss
        /\ avg_loss' = Average(running_loss + loss,
                               OutputLen(batch + 1, num_batches, last_len))
    /\ batch_trace' =
          <<"zero_grad", "forward",
            IF mask_given THEN "loss_fn(output, target, mask)"
            ELSE "loss_fn(output, target)",
            "backward", "optimizer.step", "log_metric">>
    /\ counts' = [counts EXCEPT !.zero_grad = @ + 1,
                                !.forward = @ + 1,
                                !.loss_fn = @ + 1,
                                !.backward = @ + 1,
                                !.optimizer_step = @ + 1,
                                !.log_metric = @ + 1]
    /\ weights' = weights + 1
    /\ batch' = batch + 1
    /\ tr_pc' = IF batch + 1 = num_batches THEN "epoch_end" ELSE "batch"
    /\ UNCHANGED <<num_epochs, num_batches, last_len, mask_given,
                   scheduler_given, epoch, best_loss, checkpoint, final_losses>>
    /\ UNCHANGED not_train

\* The body of the loop over the dataloader, for one batch whose loss.item()
\* is any value.
TrainBatch ==
    /\ tr_pc = "batch"
    /\ \E loss \in -1..MaxBatchLoss :
        /\ running_loss' = running_loss + loss
        /\ avg_loss' = Average(running_loss + loss,
                               OutputLen(batch + 1, num_batches, last_len))
    /\ batch_trace' =
          <<"zero_grad", "forward",
            IF mask_given THEN "loss_fn(output, target, mask)"
            ELSE "loss_fn(output, target)",
            "backward", "optimizer.step">>
          \o (IF scheduler_given THEN <<"scheduler.step">> ELSE << >>)
          \o <<"log_metric">>
    /\ counts' = [counts EXCEPT !.zero_grad = @ + 1,
                                !.forward = @ + 1,
                                !.loss_fn = @ + 1,
                                !.backward = @ + 1,
                                !.optimizer_step = @ + 1,
                                !.scheduler_step =
                                    IF scheduler_given THEN @ + 1 ELSE @,
                                !.log_metric = @ + 1]
    /\ weights' = weights + 1
    /\ batch' = batch + 1
    /\ tr_pc' = IF batch + 1 = num_batches THEN "epoch_end" ELSE "batch"
    /\ UNCHANGED <<num_epochs, num_batches, last_len, mask_given,
                   scheduler_given, epoch, best_loss, checkpoint, final_losses>>
    /\ UNCHANGED not_train

\* The end of an epoch: the checkpoint rule, then the next epoch begins.  On
\* an empty dataloader avg_loss was never assigned: an UnboundLocalError.
EpochEnd ==
    /\ tr_pc = "epoch_end"
    /\ IF avg_loss.kind = "unbound"
       THEN /\ tr_pc' = "raised"
            /\ UNCHANGED <<epoch, batch, running_loss, best_loss, counts,
                           checkpoint, final_losses>>
       ELSE /\ IF Improves(avg_loss, best_loss)
               THEN /\ best_loss' = avg_loss
                    /\ checkpoint' = [epoch |-> epoch, weights |-> weights]
                    /\ counts' = [counts EXCEPT !.log_model = @ + 1]
               ELSE UNCHANGED <<best_loss, checkpoint, counts>>
            /\ final_losses' = Append(final_losses, avg_loss)
            /\ epoch' = epoch + 1
            /\ batch' = 0
            /\ running_loss' = 0
            /\ tr_pc' = EpochStart(epoch + 1)
    /\ UNCHANGED <<num_epochs, num_batches, last_len, mask_given,
                   scheduler_given, avg_loss, weights, batch_trace>>
    /\ UNCHANGED not_train

NextTrain == TrainBegin \/ TrainBatch \/ EpochEnd

-----------------------------------------------------------------------------
(* Properties of train_model. *)

\* The least of the losses of a non-empty sequence of finite losses.
MinLoss(losses) ==
    CHOOSE m \in {losses[i] : i \in 1..Len(losses)} :
        \A i \in 1..Len(losses) : m.v <= losses[i].v

\* The first epoch (0-based) whose final loss is the least one.
FirstBestEpoch(losses) ==
    (CHOOSE i \in 1..Len(losses) :
        /\ losses[i] = MinLoss(losses)
        /\ \A j \in 1..(i - 1) : losses[j] # MinLoss(losses)) - 1

\* The state part of C10: best_loss is the least final avg_loss of the epochs
\* completed so far (infinite before the first), and the checkpoint is the
\* model as it was at the end of the first epoch that attained it.
BestLossIsMinimum ==
    tr_pc \in {"batch", "epoch_end", "returned"} =>
        IF final_losses = << >>
        THEN best_loss = PosInf /\ checkpoint = NoCheckpoint
        ELSE /\ best_loss = MinLoss(final_losses)
             /\ checkpoint.epoch = FirstBestEpoch(final_losses)
             /\ checkpoint.weights = (checkpoint.epoch + 1) * num_batches

\* The step part of C10: at the end of an epoch the model is logged exactly
\* when the epoch's final avg_loss is strictly below best_loss, which then
\* becomes it; no other step logs the model or changes best_loss, so
\* best_loss never increases.
LogsExactlyOnImprovement ==
    /\ (tr_pc = "epoch_end" /\ tr_pc' # "raised") =>
          IF Less(avg_loss, best_loss)
          THEN /\ counts'.log_model = counts.log_model + 1
               /\ checkpoint' = [epoch |-> epoch, weights |-> weights]
               /\ best_loss' = avg_loss
          ELSE /\ counts'.log_model = counts.log_model
               /\ checkpoint' = checkpoint
               /\ best_loss' = best_loss
    /\ tr_pc \in {"batch", "raised", "returned"} =>
          /\ counts'.log_model = counts.log_model
          /\ checkpoint' = checkpoint
          /\ best_loss' = best_loss
    /\ tr_pc # "call" => (best_loss' = best_loss \/ Less(best_loss', best_loss))

\* C10: the model is logged as the "models" checkpoint at the end of an epoch
\* if and only if the epoch's final avg_loss is strictly lower than best_loss,
\* which is then set to it; best_loss never increases and always is the
\* minimum final avg_loss of the epochs completed so far, and the checkpoint
\* last logged is the model as it was at the end of the earliest epoch that
\* attained that minimum.
BestCheckpointRule == []BestLossIsMinimum /\ [][LogsExactlyOnImprovement]_vars

\* C10 witness: a training has returned after two epochs with the same final
\* loss, and the checkpoint is the one of the first.
TieKeepsFirstCheckpoint ==
    /\ tr_pc = "returned"
    /\ Len(final_losses) = 2
    /\ final_losses[1] = final_losses[2]
    /\ num_batches = 2
    /\ checkpoint = [epoch |-> 0, weights |-> 2]
    /\ weights = 4

\* The position of a call in the trace of a batch, 0 when it was not made.
PosOf(trace, call) ==
    IF \E i \in 1..Len(trace) : trace[i] = call
    THEN CHOOSE i \in 1..Len(trace) : trace[i] = call
    ELSE 0

\* The call of the loss function in the trace of a batch.
LossCallOf(trace) ==
    IF PosOf(trace, "loss_fn(output, target, mask)") > 0
    THEN "loss_fn(output, target, mask)"
    ELSE "loss_fn(output, target)"

\* The calls of the batch that ran last were made once each and in the order
\* zero_grad, forward, loss function, backward, optimizer.step, scheduler.step,
\* log_metric; scheduler.step is there exactly when a scheduler was given, and
\* the mask is an argument of the loss function exactly when it was given.
BatchCallsInOrder ==
    batch_trace # << >> =>
        LET p(call) == PosOf(batch_trace, call)
        IN  /\ \A i, j \in 1..Len(batch_trace) :
                    i # j => batch_trace[i] # batch_trace[j]
            /\ p("zero_grad") = 1
            /\ p("forward") = 2
            /\ p(LossCallOf(batch_trace)) = 3
            /\ p("backward") = 4
            /\ p("optimizer.step") = 5
            /\ p("scheduler.step") = (IF scheduler_given THEN 6 ELSE 0)
            /\ p("log_metric") = Len(batch_trace)
            /\ Len(batch_trace) = (IF scheduler_given THEN 7 ELSE 6)
            /\ (p("loss_fn(output, target, mask)") > 0) <=> mask_given
            /\ (p("loss_fn(output, target)") > 0) <=> ~mask_given

\* The number of batches that have run so far.
BatchesRun == epoch * num_batches + batch

\* Every batch that has run has taken one optimizer step, one scheduler step
\* (given a scheduler) and one log entry of the loss.
OneStepPerBatch ==
    /\ (batch_trace = << >>) <=> (BatchesRun = 0)
    /\ counts.zero_grad = BatchesRun
    /\ counts.forward = BatchesRun
    /\ counts.loss_fn = BatchesRun
    /\ counts.backward = BatchesRun
    /\ counts.optimizer_step = BatchesRun
    /\ counts.scheduler_step = (IF scheduler_given THEN BatchesRun ELSE 0)
    /\ counts.log_metric = BatchesRun
    /\ weights = BatchesRun

\* A run that has returned has taken E * B steps of each kind.
ReturnedAfterAllSteps ==
    tr_pc = "returned" =>
        /\ counts.optimizer_step = num_epochs * num_batches
        /\ counts.scheduler_step
             = (IF scheduler_given THEN num_epochs * num_batches ELSE 0)
        /\ counts.log_metric = num_epochs * num_batches

\* C13: in train_model every batch of every epoch makes its calls in the order
\* zero_grad, forward, loss function, backward, optimizer.step, scheduler.step
\* (when a scheduler is given), log_metric; each batch takes exactly one
\* optimizer step and one scheduler step, so that a run of E epochs of B
\* batches takes E * B optimizer steps, E * B scheduler steps and E * B log
\* entries of the loss; the mask is passed to the loss function if and only if
\* it is not None.
TrainStepsInOrder ==
    /\ BatchCallsInOrder
    /\ OneStepPerBatch
    /\ ReturnedAfterAllSteps

\* C13 witness: a run of two epochs of two batches, with a scheduler and a
\* mask, has returned after four optimizer steps and four scheduler steps.
TrainedTwoByTwo ==
    /\ tr_pc = "returned"
    /\ num_epochs = 2 /\ num_batches = 2
    /\ scheduler_given /\ mask_given
    /\ counts.optimizer_step = 4
    /\ counts.scheduler_step = 4
    /\ counts.log_metric = 4
    /\ batch_trace[6] = "scheduler.step"

-----------------------------------------------------------------------------
(* UNet.evaluate *)

\* output = self(input_data), and output.cpu(): the model's output for a batch,
\* known by the batch it was computed from.
ModelOutput(input_data) == [output_of |-> input_data]

\* A mutant of MeanLoss: the sum is not divided.
MeanLoss_Undivided(total, n) == Quotient(total, 1)

\* loss /= len(dataloader), for a dataloader with n >= 1 batches.
MeanLoss(total, n) == Quotient(total, n)

\* y_preds before `y_preds = []` has run.
NoPreds == [bound |-> FALSE, items |-> << >>]

NoEvalReturn == [status |-> "none", value |-> << >>]

IdleEval ==
    /\ ev_pc = "idle"
    /\ dataloader = << >>
    /\ ev_mask_given = FALSE
    /\ return_predictions = FALSE
    /\ training = FALSE
    /\ ev_i = 0
    /\ ev_loss = 0
    /\ y_preds = NoPreds
    /\ ev_loss_call = "none"
    /\ ev_ret = NoEvalReturn

\* evaluate is about to run on a model in training mode: any dataloader (also
\* an empty one) whose batches give any losses, with or without a mask, with
\* or without predictions.
InitEval ==
    /\ ev_pc = "call"
    /\ \E n \in 0..MaxBatches :
        dataloader \in [1..n -> [input_data : 1..MaxBatches,
                                 loss : -1..MaxBatchLoss]]
    /\ ev_mask_given \in BOOLEAN
    /\ return_predictions \in BOOLEAN
    /\ training = TRUE
    /\ ev_i = 0
    /\ ev_loss = 0
    /\ y_preds = NoPreds
    /\ ev_loss_call = "none"
    /\ ev_ret = NoEvalReturn

\* self.eval(); loss = 0.0; y_preds = [] when predictions are asked for; the
\* loop over the dataloader begins.
EvalBegin ==
    /\ ev_pc = "call"
    /\ training' = FALSE
    /\ ev_loss' = 0
    /\ y_preds' = IF return_predictions THEN [bound |-> TRUE, items |-> << >>]
                  ELSE y_preds
    /\ ev_i' = 0
    /\ ev_pc' = IF Len(dataloader) = 0 THEN "divide" ELSE "batch"
    /\ UNCHANGED <<dataloader, ev_mask_given, return_predictions, ev_loss_call,
                   ev_ret>>
    /\ UNCHANGED not_eval

\* The body of the loop, for the next batch of the dataloader.
EvalBatch ==
    /\ ev_pc = "batch"
    /\ LET b == dataloader[ev_i + 1]
           output == ModelOutput(b.input_data)
       IN  /\ ev_loss_call' = IF ev_mask_given
                               THEN "loss_fn(output, target, mask)"
                               ELSE "loss_fn(output, target)"
           /\ ev_loss' = ev_loss + b.loss
           /\ y_preds' = IF return_predictions
                         THEN [y_preds EXCEPT !.items = Append(@, output)]
                         ELSE y_preds
    /\ ev_i' = ev_i + 1
    /\ ev_pc' = IF ev_i + 1 = Len(dataloader) THEN "divide" ELSE "batch"
    /\ UNCHANGED <<dataloader, ev_mask_given, return_predictions, training,
                   ev_ret>>
    /\ UNCHANGED not_eval

\* loss /= len(dataloader) and the return.  On an empty dataloader loss is
\* still the float 0.0 and the division by len(dataloader) = 0 raises
\* ZeroDivisionError.
EvalReturn ==
    /\ ev_pc = "divide"
    /\ IF Len(dataloader) = 0
       THEN /\ ev_pc' = "raised"
            /\ ev_ret' = [status |-> "ZeroDivisionError", value |-> << >>]
       ELSE /\ ev_pc' = "returned"
            /\ ev_ret' =
                  [status |-> "ok",
                   value |-> IF return_predictions
                             THEN <<MeanLoss(ev_loss, Len(dataloader)),
                                    y_preds.items>>
                             ELSE <<MeanLoss(ev_loss, Len(dataloader))>>]
    /\ UNCHANGED <<dataloader, ev_mask_given, return_predictions, training,
                   ev_i, ev_loss, y_preds, ev_loss_call>>
    /\ UNCHANGED not_eval

NextEval == EvalBegin \/ EvalBatch \/ EvalReturn

-----------------------------------------------------------------------------
(* Properties of evaluate. *)

\* The sum of the losses of the dataloader's batches.
RECURSIVE LossSum(_)
LossSum(batches) ==
    IF batches = << >> THEN 0
    ELSE batches[1].loss + LossSum(SubSeq(batches, 2, Len(batches)))

\* C14: whenever evaluate has returned from a dataloader of B >= 1 batches, the
\* loss it returned is the sum of the batches' losses divided by B; with
\* return_predictions it returned, after the loss, a list of exactly B outputs,
\* the i-th being the model's output for the i-th batch of the dataloader; and
\* without it the loss alone.
EvaluateReturnsMean ==
    (ev_pc = "returned" /\ Len(dataloader) >= 1) =>
        LET B == Len(dataloader)
            loss == ev_ret.value[1]
        IN  /\ ev_ret.status = "ok"
            /\ loss.kind = "num"
            /\ loss.num * B = LossSum(dataloader) * loss.den
            /\ IF return_predictions
               THEN /\ Len(ev_ret.value) = 2
                    /\ Len(ev_ret.value[2]) = B
                    /\ \A i \in 1..B :
                          ev_ret.value[2][i]
                            = ModelOutput(dataloader[i].input_data)
               ELSE Len(ev_ret.value) = 1

\* C14 witness: evaluate has returned the mean 1/2 of the losses 1 and 0 of
\* two batches, and the outputs for the batches 2 and 1 in that order.
EvaluatedTwoBatches ==
    /\ ev_pc = "returned"
    /\ return_predictions
    /\ Len(dataloader) = 2
    /\ dataloader[1] = [input_data |-> 2, loss |-> 1]
    /\ dataloader[2] = [input_data |-> 1, loss |-> 0]
    /\ ev_ret.value[1].num * 2 = ev_ret.value[1].den
    /\ ev_ret.value[2] = <<ModelOutput(2), ModelOutput(1)>>

-----------------------------------------------------------------------------
(* The specifications. *)

UNetStart ==
    InitUNet /\ IdleDataset /\ IdleTracking /\ IdleConfig /\ IdleLoss /\ IdleTrain /\ IdleEval
SpecUNet == UNetStart /\ [][NextUNet]_vars

DatasetStart ==
    InitDataset /\ IdleUNet /\ IdleTracking /\ IdleConfig /\ IdleLoss /\ IdleTrain /\ IdleEval
SpecDataset == DatasetStart /\ [][NextDataset]_vars

TrackingStart ==
    InitTracking /\ IdleUNet /\ IdleDataset /\ IdleConfig /\ IdleLoss /\ IdleTrain /\ IdleEval
SpecTracking == TrackingStart /\ [][NextTracking]_vars

ConfigStart ==
    InitConfig /\ IdleUNet /\ IdleDataset /\ IdleTracking /\ IdleLoss /\ IdleTrain /\ IdleEval
SpecConfig == ConfigStart /\ [][NextConfig]_vars

LossStart ==
    InitLoss /\ IdleUNet /\ IdleDataset /\ IdleTracking /\ IdleConfig /\ IdleTrain /\ IdleEval
SpecLoss == LossStart /\ [][NextLoss]_vars

TrainStart ==
    InitTrain /\ IdleUNet /\ IdleDataset /\ IdleTracking /\ IdleConfig /\ IdleLoss /\ IdleEval
SpecTrain == TrainStart /\ [][NextTrain]_vars

EvalStart ==
    InitEval /\ IdleUNet /\ IdleDataset /\ IdleTracking /\ IdleConfig /\ IdleLoss /\ IdleTrain
SpecEval == EvalStart /\ [][NextEval]_vars

=============================================================================
